---- MODULE Spec2Model ----
(***************************************************************************)
(* Model of the Minesweeper knowledge-based agent of                       *)
(* src/minesweeper/minesweeper.py: the board (Minesweeper), the logical    *)
(* sentences (Sentence) and the agent (MinesweeperAI) with its inference   *)
(* step add_knowledge and its two move queries.                            *)
(*                                                                         *)
(* Cells are pairs <<row, column>>, 0-based as in the source.  A Python    *)
(* Optional value is a sequence: <<>> is None and <<x>> is the value x.    *)
(* The iteration order of a Python set is not specified by the language;   *)
(* every loop over a set of cells may run in any order, so update_kb,      *)
(* subsets and add_knowledge yield the SET of states they can end in.      *)
(***************************************************************************)
EXTENDS Integers, Sequences, FiniteSets, TLC

\* ------------------------------------------------------------------ bounds
\* a board has at most MaxCells cells
MaxCells == 6
\* add_knowledge calls in a game
MaxCalls == 3
\* state-changing calls when the agent is driven with arbitrary arguments
MaxPublicCalls == 2

\* ---------------------------------------------------------------- constants
\* the literal of `if len(self.mines) != 8` in make_random_move
MineTotal == 8

VARIABLES height, width, board, mines_found, moves_made, safes, mines,
          knowledge, calls, pc, ret, last, ttt_board, chosen_action

vars == <<height, width, board, mines_found, moves_made, safes, mines,
          knowledge, calls, pc, ret, last, ttt_board, chosen_action>>

\* ------------------------------------------------------------------ helpers
None == <<>>
Some(x) == <<x>>

\* Python truthiness of an Optional set: None and the empty set are falsy
Truthy(opt) == opt # None /\ opt[1] # {}

Cells == {<<i, j>> : i \in 0..(height - 1), j \in 0..(width - 1)}

\* ------------------------------------------------------------- Minesweeper
nearby_mines(cell) ==
    Cardinality({<<i, j>> \in (((cell[1] - 1)..(cell[1] + 1)) \X ((cell[2] - 1)..(cell[2] + 1))) :
                    /\ <<i, j>> # cell
                    /\ 0 <= i /\ i < height /\ 0 <= j /\ j < width
                    /\ <<i, j>> \in board})

is_mine(cell) == cell \in board

won == mines_found = board

\* ---------------------------------------------------------------- Sentence
Sentence(cells, count) == [cells |-> cells, count |-> count]

\* mutant: known_mines that only tests `self.count != 0`
known_mines_AnyCount(s) ==
    IF s.count # 0 /\ s.cells # {} THEN Some(s.cells) ELSE None

known_mines(s) ==
    IF s.count # 0 /\ s.count = Cardinality(s.cells) THEN Some(s.cells) ELSE None

known_safes(s) ==
    IF s.count = 0 /\ Cardinality(s.cells) # 0 THEN Some(s.cells) ELSE None

\* mutant: mark_mine that forgets `self.count -= 1`
Sentence_mark_mine_NoDecrement(s, cell) ==
    IF cell \in s.cells THEN Sentence(s.cells \ {cell}, s.count) ELSE s

Sentence_mark_mine(s, cell) ==
    IF cell \in s.cells THEN Sentence(s.cells \ {cell}, s.count - 1) ELSE s

\* mutant: mark_safe that decrements the count as mark_mine does
Sentence_mark_safe_Decrement(s, cell) ==
    IF cell \in s.cells THEN Sentence(s.cells \ {cell}, s.count - 1) ELSE s

Sentence_mark_safe(s, cell) ==
    IF cell \in s.cells THEN Sentence(s.cells \ {cell}, s.count) ELSE s

\* ----------------------------------------------------------- MinesweeperAI
\* The agent's mutable fields that the inference closures share, and a record
\* of the running call: how often update_kb re-entered itself from one of its
\* loops (reentries), whether it ever did so for a sentence the marking had
\* not shrunk (unshrunk), and the new sentence as it is when the call ends.
AIState(sf, mn, kn) ==
    [safes |-> sf, mines |-> mn, knowledge |-> kn,
     reentries |-> 0, unshrunk |-> FALSE, new |-> [cells |-> {}, count |-> 0],
     uninserted |-> {}]

\* update_kb(sentence) called from inside a loop of update_kb
Reenter(st, before, after) ==
    [st EXCEPT !.reentries = @ + 1, !.unshrunk = @ \/ (after.cells = before.cells)]

\* mutant: mark_mine that also records as safe the cells of every sentence
\* the marking left with a count of 0
mark_mine_Chases(st, cell) ==
    LET marked == [i \in 1..Len(st.knowledge) |-> Sentence_mark_mine(st.knowledge[i], cell)]
    IN [st EXCEPT !.mines = @ \cup {cell},
                  !.knowledge = marked,
                  !.safes = @ \cup UNION {marked[i].cells :
                               i \in {k \in 1..Len(marked) : marked[k].count = 0}}]

mark_mine(st, cell) ==
    [st EXCEPT !.mines = @ \cup {cell},
               !.knowledge = [i \in 1..Len(@) |-> Sentence_mark_mine(@[i], cell)]]

mark_safe(st, cell) ==
    [st EXCEPT !.safes = @ \cup {cell},
               !.knowledge = [i \in 1..Len(@) |-> Sentence_mark_safe(@[i], cell)]]

\* mutant: find_neighbors without the diagonal cells of the rows above and
\* below
find_neighbors_NoDiagonals(cell) ==
    LET above == IF cell[1] - 1 >= 0 THEN {<<cell[1] - 1, cell[2]>>} ELSE {}
        below == IF cell[1] + 1 < height THEN {<<cell[1] + 1, cell[2]>>} ELSE {}
        left  == IF cell[2] - 1 >= 0 THEN {<<cell[1], cell[2] - 1>>} ELSE {}
        right == IF cell[2] + 1 < width THEN {<<cell[1], cell[2] + 1>>} ELSE {}
    IN above \cup below \cup left \cup right

find_neighbors(cell) ==
    LET above == IF cell[1] - 1 >= 0
                 THEN {<<cell[1] - 1, cell[2] + d>> : d \in {x \in -1..1 : cell[2] + x >= 0 /\ cell[2] + x < width}}
                 ELSE {}
        below == IF cell[1] + 1 < height
                 THEN {<<cell[1] + 1, cell[2] + d>> : d \in {x \in -1..1 : cell[2] + x >= 0 /\ cell[2] + x < width}}
                 ELSE {}
        left  == IF cell[2] - 1 >= 0 THEN {<<cell[1], cell[2] - 1>>} ELSE {}
        right == IF cell[2] + 1 < width THEN {<<cell[1], cell[2] + 1>>} ELSE {}
    IN above \cup below \cup left \cup right

\* mutant: update_kb(sentence) is called after every marking, changed or not
OptionChanged_Always(prev, post, cellsAfter) == TRUE

\* `prev != post` where prev was read before the sentence was mutated in
\* place: known_mines/known_safes return the sentence's own set object, so a
\* non-None prev shows the cells as they are after the mutation.
OptionChanged(prev, post, cellsAfter) ==
    IF prev = None \/ post = None THEN prev # post ELSE cellsAfter # post[1]

RECURSIVE update_kb(_, _)
RECURSIVE SafesSentences(_, _, _, _)
RECURSIVE SafesCells(_, _, _)
RECURSIVE MinesSentences(_, _, _, _)
RECURSIVE MinesCells(_, _, _)

\* body of `for sentence in self.knowledge` in the new_safes branch
SafesBody(st, cell, i) ==
    LET s    == st.knowledge[i]
        prev == known_mines(s)
        s2   == Sentence_mark_safe(s, cell)
        post == known_mines(s2)
        st2  == [st EXCEPT !.knowledge[i] = s2]
    IN IF OptionChanged(prev, post, s2.cells)
       THEN update_kb(Reenter(st2, s, s2), s2)
       ELSE {st2}

SafesSentences(S, cell, i, n) ==
    IF i > n THEN S
    ELSE SafesSentences(UNION {SafesBody(st, cell, i) : st \in S}, cell, i + 1, n)

\* `for cell in new_safes_cpy`, in any order
SafesCells(S, rem, n) ==
    IF rem = {} THEN S
    ELSE UNION {SafesCells(SafesSentences(S, c, 1, n), rem \ {c}, n) : c \in rem}

\* body of `for sentence in self.knowledge` in the new_mines branch
MinesBody(st, cell, i) ==
    LET s    == st.knowledge[i]
        prev == known_safes(s)
        s2   == Sentence_mark_mine(s, cell)
        post == known_safes(s2)
        st2  == [st EXCEPT !.knowledge[i] = s2]
    IN IF OptionChanged(prev, post, s2.cells)
       THEN update_kb(Reenter(st2, s, s2), s2)
       ELSE {st2}

MinesSentences(S, cell, i, n) ==
    IF i > n THEN S
    ELSE MinesSentences(UNION {MinesBody(st, cell, i) : st \in S}, cell, i + 1, n)

\* `for cell in new_mines_cpy`, in any order
MinesCells(S, rem, n) ==
    IF rem = {} THEN S
    ELSE UNION {MinesCells(MinesSentences(S, c, 1, n), rem \ {c}, n) : c \in rem}

\* mutant: update_kb that marks the new safes in the sentences but forgets
\* `self.safes.update(new_safes)`
update_kb_NoSafesUpdate(st, new_sentence) ==
    LET new_safes == known_safes(new_sentence)
        new_mines == known_mines(new_sentence)
    IN IF new_safes = None /\ new_mines = None THEN {st}
       ELSE IF Truthy(new_safes)
            THEN SafesCells({st}, new_safes[1], Len(st.knowledge))
            ELSE MinesCells({[st EXCEPT !.mines = @ \cup new_mines[1]]},
                            new_mines[1], Len(st.knowledge))

\* mutant: update_kb that assigns the new safes (`self.safes = new_safes`)
\* instead of uniting them with the ones known
update_kb_SafesAssigned(st, new_sentence) ==
    LET new_safes == known_safes(new_sentence)
        new_mines == known_mines(new_sentence)
    IN IF new_safes = None /\ new_mines = None THEN {st}
       ELSE IF Truthy(new_safes)
            THEN SafesCells({[st EXCEPT !.safes = new_safes[1]]},
                            new_safes[1], Len(st.knowledge))
            ELSE MinesCells({[st EXCEPT !.mines = @ \cup new_mines[1]]},
                            new_mines[1], Len(st.knowledge))

\* mutant: update_kb whose mines branch records the cells in safes
update_kb_MinesIntoSafes(st, new_sentence) ==
    LET new_safes == known_safes(new_sentence)
        new_mines == known_mines(new_sentence)
    IN IF new_safes = None /\ new_mines = None THEN {st}
       ELSE IF Truthy(new_safes)
            THEN SafesCells({[st EXCEPT !.safes = @ \cup new_safes[1]]},
                            new_safes[1], Len(st.knowledge))
            ELSE MinesCells({[st EXCEPT !.safes = @ \cup new_mines[1]]},
                            new_mines[1], Len(st.knowledge))

update_kb(st, new_sentence) ==
    LET new_safes == known_safes(new_sentence)
        new_mines == known_mines(new_sentence)
    IN IF new_safes = None /\ new_mines = None THEN {st}
       ELSE IF Truthy(new_safes)
            THEN SafesCells({[st EXCEPT !.safes = @ \cup new_safes[1]]},
                            new_safes[1], Len(st.knowledge))
            ELSE MinesCells({[st EXCEPT !.mines = @ \cup new_mines[1]]},
                            new_mines[1], Len(st.knowledge))

\* `resulting_sentence.known_safes or resulting_sentence.known_mines`: the
\* code tests the two bound methods themselves, not the values they return,
\* and a bound method is always truthy.
known_facts_test(resulting_sentence) == TRUE

\* the sentence `subset_sentence` denotes: a member of knowledge (idx # 0),
\* which update_kb mutates in place, or a detached sentence (idx = 0)
Deref(st, ref) == IF ref.idx # 0 THEN st.knowledge[ref.idx] ELSE ref.val

InKnowledge(st, s) == \E i \in 1..Len(st.knowledge) : st.knowledge[i] = s

RECURSIVE subsets(_, _)
RECURSIVE SubsetsLoop(_, _, _, _)

\* st once subsets is done with resulting_sentence: a sentence with neither
\* known safes nor known mines that is not in knowledge then is recorded
Handled(st, resulting_sentence) ==
    IF /\ known_safes(resulting_sentence) = None
       /\ known_mines(resulting_sentence) = None
       /\ ~InKnowledge(st, resulting_sentence)
    THEN [st EXCEPT !.uninserted = @ \cup {resulting_sentence}]
    ELSE st

\* what subsets does with a derived sentence
Derived(st, resulting_sentence) ==
    IF known_facts_test(resulting_sentence)
    THEN {Handled(st2, resulting_sentence) : st2 \in update_kb(st, resulting_sentence)}
    ELSE {Handled(IF InKnowledge(st2, resulting_sentence) THEN st2
                  ELSE [st2 EXCEPT !.knowledge = Append(@, resulting_sentence)],
                  resulting_sentence) :
              st2 \in subsets(st, [idx |-> 0, val |-> resulting_sentence])}

\* mutant: subsets without its elif branch (the new sentence a subset of an
\* older one)
SubsetsBody_NoElif(st, ref, i) ==
    LET subset_sentence == Deref(st, ref)
        sentence        == st.knowledge[i]
    IN IF /\ sentence.cells \subseteq subset_sentence.cells
          /\ subset_sentence.cells \ sentence.cells # {}
       THEN Derived(st, Sentence(subset_sentence.cells \ sentence.cells,
                                 subset_sentence.count - sentence.count))
       ELSE {st}

\* body of `for sentence in knowledge_cpy`
SubsetsBody(st, ref, i) ==
    LET subset_sentence == Deref(st, ref)
        sentence        == st.knowledge[i]
    IN IF /\ sentence.cells \subseteq subset_sentence.cells
          /\ subset_sentence.cells \ sentence.cells # {}
       THEN Derived(st, Sentence(subset_sentence.cells \ sentence.cells,
                                 subset_sentence.count - sentence.count))
       ELSE IF /\ subset_sentence.cells \subseteq sentence.cells
               /\ sentence.cells \ subset_sentence.cells # {}
            THEN Derived(st, Sentence(sentence.cells \ subset_sentence.cells,
                                      sentence.count - subset_sentence.count))
            ELSE {st}

SubsetsLoop(S, ref, i, n) ==
    IF i > n THEN S
    ELSE SubsetsLoop(UNION {SubsetsBody(st, ref, i) : st \in S}, ref, i + 1, n)

subsets(st, ref) == SubsetsLoop({st}, ref, 1, Len(st.knowledge))

\* the sentence add_knowledge builds: the neighbours not already known safe
\* once the observed cell itself has been marked safe
NewSentence(sf, cell, count) ==
    Sentence(find_neighbors(cell) \ (sf \cup {cell}), count)

\* mutant: the sweep assigns the known safes instead of uniting them
Sweep_Assign(st) ==
    LET found == UNION {st.knowledge[i].cells :
                   i \in {k \in 1..Len(st.knowledge) : Truthy(known_safes(st.knowledge[k]))}}
    IN IF found = {} THEN st ELSE [st EXCEPT !.safes = found]

\* "Log any new discovered safes"
Sweep(st) ==
    [st EXCEPT !.safes = @ \cup UNION {st.knowledge[i].cells :
                 i \in {k \in 1..Len(st.knowledge) : Truthy(known_safes(st.knowledge[k]))}}]

\* mutant: the clean-up builds `result` but never assigns it to knowledge
Prune_NotAssigned(st) == st

\* "Cleans up any emptied sentences"
Prune(st) ==
    [st EXCEPT !.knowledge = SelectSeq(@, LAMBDA s : s.cells # {})]

\* mutant: add_knowledge without its `self.mark_safe(cell)`
add_knowledge_NoMarkSafe(st, cell, count) ==
    LET new_sentence == NewSentence(st.safes, cell, count)
        st2          == [st EXCEPT !.knowledge = Append(@, new_sentence)]
        n            == Len(st2.knowledge)
        propagated   == update_kb(st2, new_sentence)
        derived      == UNION {subsets(s, [idx |-> n, val |-> new_sentence]) : s \in propagated}
    IN {[Prune(Sweep(s)) EXCEPT !.new = s.knowledge[n]] : s \in derived}

\* the states add_knowledge(cell, count) can return in
add_knowledge(st, cell, count) ==
    LET st1          == mark_safe(st, cell)
        new_sentence == NewSentence(st.safes, cell, count)
        st2          == [st1 EXCEPT !.knowledge = Append(@, new_sentence)]
        n            == Len(st2.knowledge)
        propagated   == update_kb(st2, new_sentence)
        derived      == UNION {subsets(s, [idx |-> n, val |-> new_sentence]) : s \in propagated}
    IN {[Prune(Sweep(s)) EXCEPT !.new = s.knowledge[n]] : s \in derived}

\* mutant: make_safe_move that returns a random safe cell without testing
\* `move not in self.moves_made`
make_safe_move_NoPlayedTest(sf, mv) ==
    IF sf # {} /\ Cardinality(sf) > Cardinality(mv)
    THEN {[hung |-> FALSE, ret |-> {move}, safes |-> sf, moves_made |-> mv] : move \in sf}
    ELSE {[hung |-> FALSE, ret |-> {}, safes |-> sf, moves_made |-> mv]}

\* mutant: make_safe_move that records the move it returns as made
make_safe_move_RecordsMove(sf, mv) ==
    IF sf # {} /\ Cardinality(sf) > Cardinality(mv)
    THEN IF sf \ mv # {}
         THEN {[hung |-> FALSE, ret |-> {move}, safes |-> sf, moves_made |-> mv \cup {move}] :
                  move \in sf \ mv}
         ELSE {[hung |-> TRUE, ret |-> {}, safes |-> sf, moves_made |-> mv]}
    ELSE {[hung |-> FALSE, ret |-> {}, safes |-> sf, moves_made |-> mv]}

\* the outcomes of make_safe_move: a returned cell ({c}), None ({}), or the
\* `while True` loop never finding a move (hung), with the two sets the
\* method reads as it leaves them
make_safe_move(sf, mv) ==
    IF sf # {} /\ Cardinality(sf) > Cardinality(mv)
    THEN IF sf \ mv # {}
         THEN {[hung |-> FALSE, ret |-> {move}, safes |-> sf, moves_made |-> mv] :
                  move \in sf \ mv}
         ELSE {[hung |-> TRUE, ret |-> {}, safes |-> sf, moves_made |-> mv]}
    ELSE {[hung |-> FALSE, ret |-> {}, safes |-> sf, moves_made |-> mv]}

\* mutant: make_random_move without `cell not in self.moves_made`
make_random_move_NoPlayedTest(mn, mv) ==
    IF Cardinality(mn) # MineTotal
    THEN IF \E cell \in Cells : cell \notin mn
         THEN {[hung |-> FALSE, ret |-> {cell}, mines |-> mn, moves_made |-> mv] :
                  cell \in {c \in Cells : c \notin mn}}
         ELSE {[hung |-> TRUE, ret |-> {}, mines |-> mn, moves_made |-> mv]}
    ELSE {[hung |-> FALSE, ret |-> {}, mines |-> mn, moves_made |-> mv]}

\* the outcomes of make_random_move, with the two sets the method reads as
\* it leaves them
make_random_move(mn, mv) ==
    IF Cardinality(mn) # MineTotal
    THEN IF \E cell \in Cells : cell \notin mn /\ cell \notin mv
         THEN {[hung |-> FALSE, ret |-> {cell}, mines |-> mn, moves_made |-> mv] :
                  cell \in {c \in Cells : c \notin mn /\ c \notin mv}}
         ELSE {[hung |-> TRUE, ret |-> {}, mines |-> mn, moves_made |-> mv]}
    ELSE {[hung |-> FALSE, ret |-> {}, mines |-> mn, moves_made |-> mv]}

\* ---------------------------------------------------------------- tictactoe
X == "X"
O == "O"
\* EMPTY = None: the value of an empty position, and of winner() without one
EMPTY == "None"

\* float('-inf') and float('inf'), below and above every utility
NegInf == -2
PosInf == 2

max(a, b) == IF a >= b THEN a ELSE b
min(a, b) == IF a <= b THEN a ELSE b

\* a board is a list of three rows; Python's board[i][j] is b[i + 1][j + 1]
initial_state == << <<EMPTY, EMPTY, EMPTY>>, <<EMPTY, EMPTY, EMPTY>>, <<EMPTY, EMPTY, EMPTY>> >>

turns(b) == Len(SelectSeq(b[1] \o b[2] \o b[3], LAMBDA position : position # EMPTY))

player(b) == IF turns(b) % 2 = 0 THEN X ELSE O

\* the empty positions (i, j) in the order the two loops append them
actions(b) ==
    SelectSeq(<< <<0, 0>>, <<0, 1>>, <<0, 2>>, <<1, 0>>, <<1, 1>>, <<1, 2>>,
                 <<2, 0>>, <<2, 1>>, <<2, 2>> >>,
              LAMBDA a : b[a[1] + 1][a[2] + 1] = EMPTY)

\* defined on an empty position; the code raises IndexError on any other
result(b, action) == [b EXCEPT ![action[1] + 1][action[2] + 1] = player(b)]

winner(b) ==
    LET rows == IF b[1][1] # EMPTY /\ b[1][1] = b[1][2] /\ b[1][2] = b[1][3] THEN b[1][1]
                ELSE IF b[2][1] # EMPTY /\ b[2][1] = b[2][2] /\ b[2][2] = b[2][3] THEN b[2][1]
                ELSE IF b[3][1] # EMPTY /\ b[3][1] = b[3][2] /\ b[3][2] = b[3][3] THEN b[3][1]
                ELSE EMPTY
        cols == IF b[1][1] # EMPTY /\ b[1][1] = b[2][1] /\ b[2][1] = b[3][1] THEN b[1][1]
                ELSE IF b[1][2] # EMPTY /\ b[1][2] = b[2][2] /\ b[2][2] = b[3][2] THEN b[1][2]
                ELSE IF b[1][3] # EMPTY /\ b[1][3] = b[2][3] /\ b[2][3] = b[3][3] THEN b[1][3]
                ELSE EMPTY
        diag == IF b[1][1] # EMPTY /\ b[1][1] = b[2][2] /\ b[2][2] = b[3][3] THEN b[1][1]
                ELSE IF b[1][3] # EMPTY /\ b[1][3] = b[2][2] /\ b[2][2] = b[3][1] THEN b[1][3]
                ELSE EMPTY
    IN IF rows # EMPTY THEN rows ELSE IF cols # EMPTY THEN cols ELSE diag

terminal(b) == IF winner(b) # EMPTY THEN TRUE ELSE turns(b) = 9

utility(b) ==
    LET won_by == winner(b)
    IN IF won_by = X THEN 1 ELSE IF won_by = O THEN -1 ELSE 0

is_empty(b) == turns(b) = 0

RECURSIVE max_value(_, _, _)
RECURSIVE min_value(_, _, _)
RECURSIVE MaxLoop(_, _, _, _, _)
RECURSIVE MinLoop(_, _, _, _, _)

\* `for action in actions(board)` of max_value, from the action at the head
\* of todo on, with the running value and alpha
MaxLoop(b, todo, value, alpha, beta) ==
    IF todo = <<>> THEN value
    ELSE LET value2 == max(value, min_value(result(b, Head(todo)), alpha, beta))
             alpha2 == max(alpha, value2)
         IN IF value2 > beta THEN value2
            ELSE MaxLoop(b, Tail(todo), value2, alpha2, beta)

\* mutant: the loop of min_value breaking on `value <= beta`
MinLoop_BreakOnBeta(b, todo, value, alpha, beta) ==
    IF todo = <<>> THEN value
    ELSE LET value2 == min(value, max_value(result(b, Head(todo)), alpha, beta))
             beta2  == min(beta, value2)
         IN IF value2 <= beta2 THEN value2
            ELSE MinLoop(b, Tail(todo), value2, alpha, beta2)

\* `for action in actions(board)` of min_value
MinLoop(b, todo, value, alpha, beta) ==
    IF todo = <<>> THEN value
    ELSE LET value2 == min(value, max_value(result(b, Head(todo)), alpha, beta))
             beta2  == min(beta, value2)
         IN IF value2 < alpha THEN value2
            ELSE MinLoop(b, Tail(todo), value2, alpha, beta2)

max_value(b, alpha, beta) ==
    IF terminal(b) THEN utility(b) ELSE MaxLoop(b, actions(b), NegInf, alpha, beta)

min_value(b, alpha, beta) ==
    IF terminal(b) THEN utility(b) ELSE MinLoop(b, actions(b), PosInf, alpha, beta)

RECURSIVE Highest(_, _, _, _)
RECURSIVE Lowest(_, _, _, _)

\* the MAX loop of minimax: chosen is a list of at most one action, empty
\* while chosen_action is unbound
Highest(b, todo, chosen, highest_value) ==
    IF todo = <<>> THEN chosen
    ELSE LET action_value == min_value(result(b, Head(todo)), NegInf, PosInf)
         IN IF action_value > highest_value
            THEN Highest(b, Tail(todo), <<Head(todo)>>, action_value)
            ELSE Highest(b, Tail(todo), chosen, highest_value)

\* the MIN loop of minimax
Lowest(b, todo, chosen, lowest_value) ==
    IF todo = <<>> THEN chosen
    ELSE LET action_value == max_value(result(b, Head(todo)), NegInf, PosInf)
         IN IF action_value < lowest_value
            THEN Lowest(b, Tail(todo), <<Head(todo)>>, action_value)
            ELSE Lowest(b, Tail(todo), chosen, lowest_value)

\* the action minimax returns, as a list of one action
minimax(b) ==
    IF player(b) = X
    THEN IF is_empty(b) THEN << <<1, 1>> >>
         ELSE Highest(b, actions(b), <<>>, NegInf)
    ELSE Lowest(b, actions(b), <<>>, PosInf)

\* ----------------------------------------------------------------- actions
NoCell == <<0, 0>>
\* what is recorded of an add_knowledge call besides its arguments: the cells
\* of the new sentence that were already in mines (known), the new sentence
\* at the end of the call (final), the re-entries of update_kb, counted up
\* to 2 (cascade), whether they number at most the cells held by knowledge
\* when the new sentence was inserted (bounded), and unshrunk as above
Aux(known, final, cascade, bounded, unshrunk, uninserted) ==
    [known |-> known, final |-> final, cascade |-> cascade,
     bounded |-> bounded, unshrunk |-> unshrunk, uninserted |-> uninserted]
NoAux == Aux({}, Sentence({}, 0), 0, TRUE, FALSE, {})

Call(op, cell, count, sent, due, aux) ==
    [op |-> op, cell |-> cell, count |-> count, sent |-> sent, due |-> due, aux |-> aux]
Query(op) == Call(op, NoCell, 0, Sentence({}, 0), {}, NoAux)

RECURSIVE CellTotal(_)
\* the number of cells held by a list of sentences
CellTotal(kn) ==
    IF kn = <<>> THEN 0 ELSE Cardinality(Head(kn).cells) + CellTotal(Tail(kn))

\* the record of add_knowledge(cell, count) ending in state out
AddAux(st, cell, count, out) ==
    LET new_sentence == NewSentence(st.safes, cell, count)
        inserted     == Append(mark_safe(st, cell).knowledge, new_sentence)
    IN Aux(new_sentence.cells \cap st.mines, out.new,
           IF out.reentries < 2 THEN out.reentries ELSE 2,
           out.reentries <= CellTotal(inserted), out.unshrunk, out.uninserted)

\* cells that the subset rule owes to safes: differences between the new
\* sentence and a sentence of knowledge of the same count, one a proper
\* subset of the other, as they stand when the new sentence is inserted
SubsetDue(st, cell, count) ==
    LET st1 == mark_safe(st, cell)
        S   == NewSentence(st.safes, cell, count)
    IN UNION {IF T.cells \subseteq S.cells /\ T.cells # S.cells /\ T.count = S.count
              THEN S.cells \ T.cells
              ELSE IF S.cells \subseteq T.cells /\ T.cells # S.cells /\ T.count = S.count
                   THEN T.cells \ S.cells
                   ELSE {} : T \in {st1.knowledge[i] : i \in 1..Len(st1.knowledge)}}

Init ==
    /\ height \in 1..MaxCells
    /\ width \in 1..MaxCells
    /\ height * width <= MaxCells
    /\ board \in SUBSET Cells
    /\ mines_found = {}
    /\ ttt_board = initial_state
    /\ chosen_action = <<>>
    /\ moves_made = {}
    /\ safes = {}
    /\ mines = {}
    /\ knowledge = <<>>
    /\ calls = 0
    /\ pc = "idle"
    /\ ret = {}
    /\ last = Query("init")

\* a driver with no board behind it: the agent is fed arbitrary observations
InitPublic ==
    /\ Init
    /\ board = {}
    /\ height <= width

AddKnowledge(cell, count) ==
    /\ pc = "idle"
    /\ \E out \in add_knowledge(AIState(safes, mines, knowledge), cell, count) :
          /\ safes' = out.safes
          /\ mines' = out.mines
          /\ knowledge' = out.knowledge
          /\ last' = Call("add_knowledge", cell, count, NewSentence(safes, cell, count),
                          SubsetDue(AIState(safes, mines, knowledge), cell, count),
                          AddAux(AIState(safes, mines, knowledge), cell, count, out))
    /\ moves_made' = moves_made \cup {cell}
    /\ calls' = calls + 1
    /\ ret' = {}
    /\ UNCHANGED <<ttt_board, chosen_action, height, width, board, mines_found, pc>>

\* the driver reveals a cell that is not a mine and reports its true count
TruthfulObservation ==
    /\ calls < MaxCalls
    /\ \E cell \in Cells \ board : AddKnowledge(cell, nearby_mines(cell))

\* any cell with any count a cell of that position could show
AnyObservation ==
    /\ calls < MaxPublicCalls
    /\ \E cell \in Cells : \E count \in 0..Cardinality(find_neighbors(cell)) :
        AddKnowledge(cell, count)

MarkMineCell(cell) ==
    /\ pc = "idle"
    /\ LET out == mark_mine(AIState(safes, mines, knowledge), cell)
       IN /\ safes' = out.safes
          /\ mines' = out.mines
          /\ knowledge' = out.knowledge
    /\ last' = Call("mark_mine", cell, 0, Sentence({}, 0), {}, NoAux)
    /\ calls' = calls + 1
    /\ ret' = {}
    /\ UNCHANGED <<ttt_board, chosen_action, height, width, board, mines_found, moves_made, pc>>

MarkSafeCell(cell) ==
    /\ pc = "idle"
    /\ LET out == mark_safe(AIState(safes, mines, knowledge), cell)
       IN /\ safes' = out.safes
          /\ mines' = out.mines
          /\ knowledge' = out.knowledge
    /\ last' = Call("mark_safe", cell, 0, Sentence({}, 0), {}, NoAux)
    /\ calls' = calls + 1
    /\ ret' = {}
    /\ UNCHANGED <<ttt_board, chosen_action, height, width, board, mines_found, moves_made, pc>>

MarkMine ==
    /\ calls < MaxPublicCalls
    /\ \E cell \in Cells : MarkMineCell(cell)

MarkSafe ==
    /\ calls < MaxPublicCalls
    /\ \E cell \in Cells : MarkSafeCell(cell)

\* the caller tells the agent of a cell that is a mine on the board
TruthfulMarkMine ==
    /\ calls < MaxCalls
    /\ \E cell \in board : MarkMineCell(cell)

\* the caller tells the agent of a cell that is not a mine on the board
TruthfulMarkSafe ==
    /\ calls < MaxCalls
    /\ \E cell \in Cells \ board : MarkSafeCell(cell)

MakeSafeMove ==
    /\ pc = "idle"
    /\ \E out \in make_safe_move(safes, moves_made) :
          /\ ret' = out.ret
          /\ pc' = IF out.hung THEN "hung" ELSE "idle"
          /\ safes' = out.safes
          /\ moves_made' = out.moves_made
    /\ last' = Query("make_safe_move")
    /\ UNCHANGED <<ttt_board, chosen_action, height, width, board, mines_found, mines, knowledge, calls>>

MakeRandomMove ==
    /\ pc = "idle"
    /\ \E out \in make_random_move(mines, moves_made) :
          /\ ret' = out.ret
          /\ pc' = IF out.hung THEN "hung" ELSE "idle"
          /\ mines' = out.mines
          /\ moves_made' = out.moves_made
    /\ last' = Query("make_random_move")
    /\ UNCHANGED <<ttt_board, chosen_action, height, width, board, mines_found, safes, knowledge, calls>>

\* the game as the driver plays it: truthful observations and move queries
Next == TruthfulObservation \/ MakeSafeMove \/ MakeRandomMove

Spec == Init /\ [][Next]_vars

\* every public call of the agent, with arbitrary arguments
NextPublic == AnyObservation \/ MarkMine \/ MarkSafe \/ MakeSafeMove \/ MakeRandomMove

SpecPublic == InitPublic /\ [][NextPublic]_vars

\* the game with a caller that also uses the two marking primitives, always
\* with facts that are true of the board
NextMarks ==
    \/ TruthfulObservation
    \/ TruthfulMarkMine
    \/ TruthfulMarkSafe
    \/ MakeSafeMove
    \/ MakeRandomMove

SpecMarks == Init /\ [][NextMarks]_vars

\* the caller flags on the board a cell the agent holds to be a mine
FlagMine ==
    /\ pc = "idle"
    /\ \E cell \in mines \ mines_found : mines_found' = mines_found \cup {cell}
    /\ UNCHANGED <<ttt_board, chosen_action, height, width, board, moves_made, safes, mines, knowledge,
                   calls, pc, ret, last>>

\* the game with the caller flagging the mines the agent finds
NextGame == Next \/ FlagMine

SpecGame == Init /\ [][NextGame]_vars

\* Minesweeper(height, width, mines) entered: an empty grid and the number of
\* mines asked for, which may exceed the number of cells by one
InitBoard ==
    /\ height \in 1..MaxCells
    /\ width \in 1..MaxCells
    /\ height * width <= MaxCells
    /\ board = {}
    /\ mines_found = {}
    /\ ttt_board = initial_state
    /\ chosen_action = <<>>
    /\ moves_made = {}
    /\ safes = {}
    /\ mines = {}
    /\ knowledge = <<>>
    /\ calls = 0
    /\ pc = "placing"
    /\ ret = {}
    /\ \E n \in 0..(height * width + 1) :
          last = Call("Minesweeper", NoCell, n, Sentence({}, 0), {}, NoAux)

\* one turn of `while len(self.mines) != mines`: a random cell, mined if it
\* is not mined yet
PlaceMine ==
    /\ pc = "placing"
    /\ Cardinality(board) # last.count
    /\ \E cell \in Cells : board' = IF cell \notin board THEN board \cup {cell} ELSE board
    /\ UNCHANGED <<ttt_board, chosen_action, height, width, mines_found, moves_made, safes, mines, knowledge,
                   calls, pc, ret, last>>

\* the loop ends and the constructor returns
Constructed ==
    /\ pc = "placing"
    /\ Cardinality(board) = last.count
    /\ pc' = "idle"
    /\ UNCHANGED <<ttt_board, chosen_action, height, width, board, mines_found, moves_made, safes, mines,
                   knowledge, calls, ret, last>>

NextBoard == PlaceMine \/ Constructed

SpecBoard == InitBoard /\ [][NextBoard]_vars

\* a tic-tac-toe game from initial_state(); no minesweeper game is on
InitGame ==
    /\ ttt_board = initial_state
    /\ chosen_action = <<>>
    /\ height = 1
    /\ width = 1
    /\ board = {}
    /\ mines_found = {}
    /\ moves_made = {}
    /\ safes = {}
    /\ mines = {}
    /\ knowledge = <<>>
    /\ calls = 0
    /\ pc = "idle"
    /\ ret = {}
    /\ last = Query("init")

\* the player to move takes any empty position of a board that is not over
Move ==
    /\ ~terminal(ttt_board)
    /\ \E k \in 1..Len(actions(ttt_board)) :
          ttt_board' = result(ttt_board, actions(ttt_board)[k])
    /\ chosen_action' = <<>>
    /\ last' = Query("result")
    /\ UNCHANGED <<height, width, board, mines_found, moves_made, safes, mines,
                   knowledge, calls, pc, ret>>

\* minimax(board) is called, once, on a board that is not over
Minimax ==
    /\ last.op # "minimax"
    /\ ~terminal(ttt_board)
    /\ chosen_action' = minimax(ttt_board)
    /\ last' = Query("minimax")
    /\ UNCHANGED <<ttt_board, height, width, board, mines_found, moves_made, safes,
                   mines, knowledge, calls, pc, ret>>

NextTicTacToe == Move \/ Minimax

SpecTicTacToe == InitGame /\ [][NextTicTacToe]_vars

\* ------------------------------------------------------------------ claims
Sentences == {knowledge[i] : i \in 1..Len(knowledge)}

\* the in-bounds cells within one row and one column of a cell, bar itself
Neighbours8(cell) ==
    {c \in Cells : c # cell /\ c[1] - cell[1] \in -1..1 /\ c[2] - cell[2] \in -1..1}

\* C1: with truthful observations, interleaved with move queries, safes and
\* mines are disjoint whenever a public call has returned.
C1_SafesMinesDisjoint == safes \cap mines = {}

C1_Witness ==
    /\ last.op \in {"make_safe_move", "make_random_move"}
    /\ calls >= 2
    /\ mines # {}
    /\ safes \ moves_made # {}

\* C2: with truthful observations every sentence held in knowledge has
\* 0 <= count <= |cells|.
C2_CountWithinCells ==
    \A s \in Sentences : 0 <= s.count /\ s.count <= Cardinality(s.cells)

\* a sentence that survives in knowledge after mark_mine took a mine out of
\* it and lowered its count
C2_Witness ==
    \E s \in Sentences : \E c \in moves_made :
        /\ s.cells # {}
        /\ s.cells \subseteq Neighbours8(c)
        /\ (Neighbours8(c) \ s.cells) \cap mines # {}
        /\ s.count > 0
        /\ s.count = nearby_mines(c) - Cardinality((Neighbours8(c) \ s.cells) \cap mines)

\* C3: across any sequence of public calls the sets safes, mines and
\* moves_made only grow.
C3_Monotone ==
    [][/\ safes \subseteq safes'
       /\ mines \subseteq mines'
       /\ moves_made \subseteq moves_made']_vars

C3_Witness ==
    /\ calls = MaxPublicCalls
    /\ last.op = "add_knowledge"
    /\ safes \ moves_made # {}
    /\ mines # {}

C5_ZeroCountNeighboursSafe ==
    (last.op = "add_knowledge" /\ last.count = 0) => Neighbours8(last.cell) \subseteq safes

C5_Witness ==
    /\ last.op = "add_knowledge"
    /\ last.count = 0
    /\ calls = MaxPublicCalls
    /\ Cardinality(last.sent.cells) >= 2
    /\ knowledge # <<>>

\* C6: if the sentence built by add_knowledge has count > 0 equal to the
\* number of its cells, then after add_knowledge returns all those cells are
\* in mines.
C6_FullCountCellsMines ==
    (/\ last.op = "add_knowledge"
     /\ last.sent.count > 0
     /\ last.sent.count = Cardinality(last.sent.cells)) => last.sent.cells \subseteq mines

C6_Witness ==
    /\ last.op = "add_knowledge"
    /\ last.sent.count >= 2
    /\ last.sent.count = Cardinality(last.sent.cells)
    /\ calls = MaxPublicCalls

\* C7: when add_knowledge returns, no sentence of knowledge has known_safes()
\* with a cell missing from safes, and none has known_mines() with a cell
\* missing from mines.
C7_Closure ==
    last.op = "add_knowledge" =>
        \A s \in Sentences :
            /\ Truthy(known_safes(s)) => s.cells \subseteq safes
            /\ Truthy(known_mines(s)) => s.cells \subseteq mines

\* C8: make_random_move returns a cell in neither mines nor moves_made when
\* fewer mines are known than the board holds, and None otherwise.
C8_RandomMoveByMineCount ==
    last.op = "make_random_move" =>
        IF Cardinality(mines) < Cardinality(board)
        THEN pc = "idle" /\ ret # {} /\ ret \cap (mines \cup moves_made) = {}
        ELSE pc = "idle" /\ ret = {}

\* C9: a cell returned by make_random_move is in bounds, not in mines and not
\* in moves_made.
C9_RandomMoveSafe ==
    (last.op = "make_random_move" /\ ret # {}) =>
        \A c \in ret : /\ c[1] \in 0..(height - 1)
                       /\ c[2] \in 0..(width - 1)
                       /\ c \notin mines
                       /\ c \notin moves_made

C9_Witness ==
    /\ last.op = "make_random_move"
    /\ ret # {}
    /\ mines # {}
    /\ moves_made # {}

\* C10: make_safe_move returns a cell of safes minus moves_made if and only
\* if that difference is non-empty, and None exactly when every safe cell
\* has been played.
C10_SafeMove ==
    last.op = "make_safe_move" =>
        /\ pc = "idle"
        /\ ret \subseteq safes \ moves_made
        /\ ret # {} <=> safes \ moves_made # {}

C10_Witness ==
    /\ last.op = "make_safe_move"
    /\ ret # {}
    /\ moves_made # {}
    /\ Cardinality(safes \ moves_made) >= 2

C10_WitnessNone ==
    /\ last.op = "make_safe_move"
    /\ ret = {}
    /\ moves_made # {}

\* C11: make_safe_move and make_random_move are pure queries: a call of
\* either leaves safes, mines, moves_made and knowledge unchanged.
C11_QueriesPure ==
    [][last'.op \in {"make_safe_move", "make_random_move"} =>
          UNCHANGED <<safes, mines, moves_made, knowledge>>]_vars

C11_Witness ==
    /\ last.op = "make_safe_move"
    /\ ret # {}
    /\ moves_made # {}
    /\ mines # {}

\* C12: with truthful observations on a board with N mines, the agent's
\* mines never number more than N.
C12_MinesAtMostBoard == Cardinality(mines) <= Cardinality(board)

C12_Witness ==
    /\ last.op = "add_knowledge"
    /\ Cardinality(board) >= 2
    /\ mines = board

\* C13: whenever add_knowledge, mark_mine or mark_safe has returned, the cells
\* of every sentence in knowledge are disjoint from safes.
C13_SentencesClearOfSafes ==
    last.op \in {"add_knowledge", "mark_mine", "mark_safe"} =>
        \A s \in Sentences : s.cells \cap safes = {}

\* C14: after every add_knowledge call returns, every sentence in knowledge
\* has a non-empty cell set.
C14_NoEmptySentence ==
    last.op = "add_knowledge" => \A s \in Sentences : s.cells # {}

\* the call resolved its own sentence to nothing while another one stays
C14_Witness ==
    /\ last.op = "add_knowledge"
    /\ last.sent.cells # {}
    /\ last.sent.count = 0
    /\ knowledge # <<>>

\* C15: add_knowledge skips inserting a sentence structurally equal to one
\* already in knowledge, so knowledge never holds two equal sentences.
C15_NoDuplicateSentence ==
    \A i, j \in 1..Len(knowledge) : i # j => knowledge[i] # knowledge[j]

\* C16: every add_knowledge call terminates: update_kb re-enters itself only
\* after a marking that strictly shrank the sentence it re-enters for, so the
\* re-entries of one call number at most the cells that knowledge held when
\* the new sentence was inserted.
C16_Terminates ==
    last.op = "add_knowledge" => last.aux.bounded /\ ~last.aux.unshrunk

\* a call in which update_kb re-entered itself more than once
C16_Witness ==
    /\ last.op = "add_knowledge"
    /\ last.aux.cascade = 2

\* C17: on a 1x2 board whose single mine is at (0,1), after
\* add_knowledge((0,0), 1) the agent has (0,1) in mines, make_safe_move()
\* returns None, and once (0,1) is recorded in mines_found, won() is True.
C17_Scenario ==
    /\ height = 1
    /\ width = 2
    /\ board = {<<0, 1>>}
    /\ calls = 1
    /\ moves_made = {<<0, 0>>}

C17_EndToEnd ==
    C17_Scenario =>
        /\ <<0, 1>> \in mines
        /\ \A out \in make_safe_move(safes, moves_made) : out.ret = {} /\ ~out.hung
        /\ (last.op = "make_safe_move" => ret = {} /\ pc = "idle")
        /\ (<<0, 1>> \in mines_found => won)

C17_Witness ==
    /\ C17_Scenario
    /\ last.op = "make_safe_move"
    /\ <<0, 1>> \in mines_found
    /\ won

\* C18: constructing a board with more mines than cells fails as an invalid
\* configuration (by the time every cell is mined the error has been
\* raised) instead of running the placement loop forever; a construction
\* that returns has placed exactly the number of mines asked for.
C18_ConstructionChecked ==
    /\ (last.op = "Minesweeper" /\ last.count > height * width /\ board = Cells) => pc = "error"
    /\ (last.op = "Minesweeper" /\ pc = "idle") => Cardinality(board) = last.count

\* C19: under truthful observations every cell of the agent's mines is a
\* mine of the board, no cell of safes is one, and make_safe_move never
\* returns a mine of the board.
C19_Sound ==
    /\ mines \subseteq board
    /\ safes \cap board = {}
    /\ \A out \in make_safe_move(safes, moves_made) : out.ret \cap board = {}
    /\ (last.op = "make_safe_move" => ret \cap board = {})

C19_Witness ==
    /\ mines # {}
    /\ mines # board
    /\ last.op = "make_safe_move"
    /\ ret # {}
    /\ ret \cap moves_made = {}

\* C20: a neighbour already in mines when add_knowledge builds its new
\* sentence is no longer in that sentence when the call returns.
C20_KnownMineResolved ==
    (last.op = "add_knowledge" /\ last.aux.known # {}) =>
        last.aux.final.cells \cap last.aux.known = {}

\* C21: when add_knowledge returns, every sentence that subset derivation
\* produced with neither known safes nor known mines was a member of
\* knowledge, or was inserted into it, when subsets was done with it.
C21_DerivedInserted ==
    last.op = "add_knowledge" => last.aux.uninserted = {}

\* C22: mark_mine(cell) adds cell to mines, removes it from every sentence
\* that holds it and lowers that sentence's count by 1, and leaves the other
\* sentences, safes, moves_made and the number of sentences as they were,
\* whatever the sentences then determine; mark_safe(cell) likewise adds cell
\* to safes and removes it from the sentences without changing a count, and
\* leaves mines as it was.
C22_MarkStep(isMine) ==
    /\ mines' = IF isMine THEN mines \cup {last'.cell} ELSE mines
    /\ safes' = IF isMine THEN safes ELSE safes \cup {last'.cell}
    /\ moves_made' = moves_made
    /\ Len(knowledge') = Len(knowledge)
    /\ \A i \in 1..Len(knowledge) :
          knowledge'[i] =
              IF last'.cell \in knowledge[i].cells
              THEN [cells |-> knowledge[i].cells \ {last'.cell},
                    count |-> IF isMine THEN knowledge[i].count - 1 ELSE knowledge[i].count]
              ELSE knowledge[i]

C22_MarkingPrimitives ==
    [][/\ last'.op = "mark_mine" => C22_MarkStep(TRUE)
       /\ last'.op = "mark_safe" => C22_MarkStep(FALSE)]_vars

C22_Witness ==
    /\ last.op = "mark_mine"
    /\ last.cell \in mines
    /\ \E s \in Sentences : s.cells # {} /\ s.count = 0 /\ s.cells \cap safes = {}

\* C23: for every cell of the grid find_neighbors gives exactly the in-bounds
\* cells within one row and one column of it, the cell itself excluded, and
\* nearby_mines counts the mines of the board in that same set; so the count
\* of a truthful observation is the number of mines among the neighbours
\* add_knowledge finds.
C23_SameNeighbourhood ==
    /\ \A cell \in Cells :
          /\ find_neighbors(cell) = Neighbours8(cell)
          /\ nearby_mines(cell) = Cardinality(find_neighbors(cell) \cap board)
    /\ last.op = "add_knowledge" =>
          last.count = Cardinality(find_neighbors(last.cell) \cap board)

C23_Witness ==
    /\ last.op = "add_knowledge"
    /\ height >= 2
    /\ Cardinality(find_neighbors(last.cell)) = 5
    /\ last.count = 2
    /\ \E c \in find_neighbors(last.cell) \cap board : c[1] # last.cell[1] /\ c[2] # last.cell[2]

\* C24: make_random_move always returns, and returns nothing when every
\* cell of the board is in mines or in moves_made.
C24_RandomMoveReturns ==
    last.op = "make_random_move" =>
        /\ pc = "idle"
        /\ Cells \subseteq mines \cup moves_made => ret = {}

\* C25: every cell the agent has played is in safes; hence the test
\* `self.safes and len(self.safes) > len(self.moves_made)` of make_safe_move
\* holds exactly when an unplayed safe cell exists, and its selection loop
\* always finds a move.
C25_MovesMadeSafe ==
    /\ moves_made \subseteq safes
    /\ (safes # {} /\ Cardinality(safes) > Cardinality(moves_made)) <=> (safes \ moves_made # {})
    /\ \A out \in make_safe_move(safes, moves_made) : ~out.hung

C25_Witness ==
    /\ last.op = "add_knowledge"
    /\ Cardinality(moves_made) = 2
    /\ safes \ moves_made # {}
    /\ \E out \in make_safe_move(safes, moves_made) : out.ret # {}

RECURSIVE GameValue(_)
\* the value of a board under full minimax: its utility when the game is
\* over, else the largest (X to move) or smallest (O to move) value of the
\* boards one move away
GameValue(b) ==
    IF terminal(b) THEN utility(b)
    ELSE LET todo == actions(b)
             vals == {GameValue(result(b, todo[k])) : k \in 1..Len(todo)}
         IN IF player(b) = X
            THEN CHOOSE v \in vals : \A w \in vals : w <= v
            ELSE CHOOSE v \in vals : \A w \in vals : v <= w

\* C26: on every board that is not over and that alternating legal moves
\* reach from initial_state(), minimax returns an empty position, and the
\* board that action leads to has the value of the board under full minimax.
C26_MinimaxOptimal ==
    last.op = "minimax" =>
        /\ Len(chosen_action) = 1
        /\ \E k \in 1..Len(actions(ttt_board)) : actions(ttt_board)[k] = chosen_action[1]
        /\ ttt_board[chosen_action[1][1] + 1][chosen_action[1][2] + 1] = EMPTY
        /\ LET todo == actions(ttt_board)
               vals == {<<todo[k], GameValue(result(ttt_board, todo[k]))>> : k \in 1..Len(todo)}
           IN \E c \in vals :
                 /\ c[1] = chosen_action[1]
                 /\ \A d \in vals :
                       IF player(ttt_board) = X THEN d[2] <= c[2] ELSE c[2] <= d[2]

C26_Witness ==
    /\ last.op = "minimax"
    /\ player(ttt_board) = O
    /\ turns(ttt_board) = 3
    /\ chosen_action # <<>>
    /\ GameValue(ttt_board) = 0
    /\ \E k \in 1..Len(actions(ttt_board)) : GameValue(result(ttt_board, actions(ttt_board)[k])) = 1

====
